---- MODULE Spec2Model ----
(***************************************************************************)
(* Model of the two scripts of openclaw-worker's cirra-mcp skill:          *)
(*   - the Authorizer   (oauth-flow.js, src/unnamed/part_000)              *)
(*   - the Tool Invoker (src/skills/cirra-mcp/scripts/call-tool.js)        *)
(* Each script is a single-threaded event loop: an action is one           *)
(* run-to-completion step of it (a handler up to its next await, together  *)
(* with the continuations the promise it settles wakes up).                *)
(***************************************************************************)
EXTENDS Integers, Sequences, FiniteSets, TLC

VARIABLES
    now,            \* Date.now(), epoch milliseconds
    ticks,          \* number of clock steps taken (bounded)
    tokenStore,     \* ~/.mcporter/cirra-tokens.json
    \* ---- Authorizer ----
    apc,            \* position of main(): "register", "waiting", "saved", "exited"
    client_id,      \* client.client_id of the registration response
    state,          \* generateState() of this run
    listening,      \* the callback server accepts requests
    serverPromise,  \* the promise of startCallbackServer
    requests,       \* inbound requests of the listener, in arrival order
    timerAt,        \* deadline of the setTimeout of startCallbackServer
    timerFired,     \* the timeout callback has run
    aexit,          \* exit status of the Authorizer process
    \* ---- Tool Invoker ----
    args,           \* process.argv.slice(2), abstracted
    env,            \* process.env.CIRRA_OAUTH_CACHE
    ipc,            \* position of the process: "start", "check", "refresh", "fetch", "exited"
    method,         \* JSON-RPC method of the mcpCall in progress
    tokens,         \* the credential record shared by all calls of the process
    newTokens,      \* body of the last successful refresh response
    refreshedAt,    \* Date.now() when that response was handled
    sessionId,      \* module variable sessionId
    messageId,      \* module variable messageId
    trace,          \* requests sent and call outcomes, in order
    result,         \* value returned by the last mcpCall
    stdout,         \* what console.log printed
    iexit,          \* exit status of the Tool Invoker process
    received,       \* status and session-id header of the POST /mcp responses, in order
    \* ---- the event-stream decoder on its own ----
    stream,         \* lines of the event-stream body handed to parseSSEResponse
    parsed          \* what mcpCall made of that body

avars == <<apc, client_id, state, listening, serverPromise, requests,
           timerAt, timerFired, aexit>>
ivars == <<args, env, ipc, method, tokens, newTokens, refreshedAt, sessionId,
           messageId, trace, result, stdout, iexit, received>>
pvars == <<stream, parsed>>
vars == <<now, ticks, tokenStore, avars, ivars, pvars>>

----------------------------------------------------------------------------
\* Bounds of the model
T0 == 100000            \* Date.now() when the process starts
MaxTicks == 1           \* clock steps per run
MaxCallbacks == 2       \* inbound requests the listener receives
MaxFrames == 2          \* lines of an event-stream body

\* Program constants
TIMEOUT == 300000       \* 5 * 60 * 1000
SKEW == 60000           \* refresh margin of mcpCall

\* JavaScript values without a TLA+ counterpart
Undefined == "undefined"    \* undefined / null of a string-valued field
NoNumber == -1              \* undefined / null of a number-valued field
NotExited == -1             \* the process is still running

\* ToBoolean of a string-valued and of a number-valued field
TruthyStr(s) == s /= Undefined /\ s /= ""
TruthyNum(n) == n /= NoNumber /\ n /= 0

----------------------------------------------------------------------------
\* The token store file
NoFile == [kind |-> "missing"]
GarbageFile == [kind |-> "garbage"]
FileOf(rec) == [kind |-> "json", rec |-> rec]

\* JSON.stringify(tokenData, null, 2) written by fs.writeFileSync
WriteStore(rec) == FileOf(rec)

\* expires_at of a record built from a token response
ExpiresAt(expires_in, t) ==
    IF TruthyNum(expires_in) THEN t + expires_in * 1000 ELSE NoNumber

----------------------------------------------------------------------------
\* ---- Authorizer ----

States == {"st1", "st2"}
Codes == {Undefined, "c1"}
Errors == {Undefined, "", "access_denied"}

\* query of an inbound request: url.pathname and url.searchParams.get(...)
Callbacks == [path : {"/callback"}, code : Codes,
              returnedState : States \cup {Undefined}, error : Errors]
OtherPaths == [path : {"/"}, code : {Undefined},
               returnedState : {Undefined}, error : {Undefined}]
Inbound == Callbacks \cup OtherPaths

\* token endpoint responses (2xx bodies)
ExpiresIn == {NoNumber, 0, 60, 3600}
ExchangeResponses == [access_token : {"AT1"}, refresh_token : {"RT1"},
                      token_type : {"Bearer"}, expires_in : ExpiresIn,
                      scope : {"mcp"}]

Pending == [status |-> "pending", reason |-> Undefined]
NoPromise == [status |-> "none", reason |-> Undefined]

\* handlers suspended in `await exchangeCode(...)`
InFlight(reqs) == {i \in 1..Len(reqs) : reqs[i].exchanged /\ reqs[i].status = 0}

\* number of POST /token requests issued by exchangeCode
Exchanges(reqs) == Cardinality({i \in 1..Len(reqs) : reqs[i].exchanged})

\* tokenData of main()
TokenData(cid, tok, t) ==
    [server |-> "cirra", url |-> "https://mcp.cirra.ai", client_id |-> cid,
     access_token |-> tok.access_token, refresh_token |-> tok.refresh_token,
     token_type |-> tok.token_type, expires_at |-> ExpiresAt(tok.expires_in, t),
     scope |-> tok.scope]

\* The event loop ends with status 0 once main() has returned and nothing is
\* left to wait for: the timer has run and no handler awaits an exchange.
LoopDrained(pc, fired, reqs) ==
    IF pc = "saved" /\ fired /\ InFlight(reqs) = {} THEN 0 ELSE NotExited

\* reject(err) of the server promise, and the catch of main() it wakes up
RejectWithoutExit(reason, reqs, fired) ==
    IF serverPromise.status = "pending"
    THEN /\ serverPromise' = [status |-> "rejected", reason |-> reason]
         /\ UNCHANGED <<apc, aexit, tokenStore>>
    ELSE /\ UNCHANGED <<serverPromise, apc, tokenStore>>
         /\ aexit' = LoopDrained(apc, fired, reqs)
Reject(reason, reqs, fired) ==
    IF serverPromise.status = "pending"
    THEN /\ serverPromise' = [status |-> "rejected", reason |-> reason]
         /\ apc' = "exited"
         /\ aexit' = 1
         /\ UNCHANGED tokenStore
    ELSE /\ UNCHANGED <<serverPromise, apc, tokenStore>>
         /\ aexit' = LoopDrained(apc, fired, reqs)

\* resolve({tokens, clientId}), and the rest of main() it wakes up
Resolve(tok, reqs, fired) ==
    IF serverPromise.status = "pending"
    THEN /\ serverPromise' = [status |-> "resolved", reason |-> Undefined]
         /\ tokenStore' = WriteStore(TokenData(client_id, tok, now))
         /\ apc' = "saved"
         /\ aexit' = LoopDrained("saved", fired, reqs)
    ELSE /\ UNCHANGED <<serverPromise, apc, tokenStore>>
         /\ aexit' = LoopDrained(apc, fired, reqs)

\* registerClient() succeeded: main() generates the state, starts the
\* callback server and its timer, and waits for the server promise
RegisterOk(cid, st) ==
    /\ apc = "register" /\ aexit = NotExited
    /\ client_id' = cid
    /\ state' = st
    /\ listening' = TRUE
    /\ serverPromise' = Pending
    /\ timerAt' = now + TIMEOUT
    /\ apc' = "waiting"
    /\ UNCHANGED <<now, ticks, tokenStore, requests, timerFired, aexit, ivars, pvars>>

\* registerClient() threw
RegisterFail ==
    /\ apc = "register" /\ aexit = NotExited
    /\ apc' = "exited"
    /\ aexit' = 1
    /\ UNCHANGED <<now, ticks, tokenStore, client_id, state, listening,
                   serverPromise, requests, timerAt, timerFired, ivars, pvars>>

\* `if (error)` of the handler
ErrorIgnored(req) == FALSE
HasError(req) == TruthyStr(req.error)

\* `if (returnedState !== state)` of the handler
StateNotCompared(req, st) == FALSE
StateMismatch(req, st) == req.returnedState /= st

Handled(req, exchanged, status) ==
    [path |-> req.path, code |-> req.code, returnedState |-> req.returnedState,
     error |-> req.error, exchanged |-> exchanged, status |-> status]

\* the request handler of http.createServer, up to its first await
Handler(req) ==
    /\ listening /\ aexit = NotExited
    /\ Len(requests) < MaxCallbacks
    /\ IF req.path /= "/callback"
       THEN /\ requests' = Append(requests, Handled(req, FALSE, 404))
            /\ UNCHANGED <<listening, serverPromise, apc, aexit, tokenStore>>
       ELSE IF HasError(req)
       THEN /\ requests' = Append(requests, Handled(req, FALSE, 400))
            /\ listening' = FALSE
            /\ Reject(req.error, requests', timerFired)
       ELSE IF StateMismatch(req, state)
       THEN /\ requests' = Append(requests, Handled(req, FALSE, 400))
            /\ listening' = FALSE
            /\ Reject("State mismatch", requests', timerFired)
       ELSE /\ requests' = Append(requests, Handled(req, TRUE, 0))
            /\ UNCHANGED <<listening, serverPromise, apc, aexit, tokenStore>>
    /\ UNCHANGED <<now, ticks, client_id, state, timerAt, timerFired, ivars, pvars>>

\* exchangeCode() of handler i returned the token response tok
ExchangeOk(i, tok) ==
    /\ aexit = NotExited
    /\ i \in InFlight(requests)
    /\ requests' = [requests EXCEPT ![i].status = 200]
    /\ listening' = FALSE
    /\ Resolve(tok, requests', timerFired)
    /\ UNCHANGED <<now, ticks, client_id, state, timerAt, timerFired, ivars, pvars>>

\* exchangeCode() of handler i threw (non-2xx from the token endpoint)
ExchangeFail(i) ==
    /\ aexit = NotExited
    /\ i \in InFlight(requests)
    /\ requests' = [requests EXCEPT ![i].status = 500]
    /\ listening' = FALSE
    /\ Reject("Token exchange failed", requests', timerFired)
    /\ UNCHANGED <<now, ticks, client_id, state, timerAt, timerFired, ivars, pvars>>

\* the setTimeout callback of startCallbackServer
Timeout ==
    /\ aexit = NotExited
    /\ apc \in {"waiting", "saved"}
    /\ ~timerFired
    /\ now >= timerAt
    /\ timerFired' = TRUE
    /\ listening' = FALSE
    /\ Reject("OAuth flow timed out", requests, TRUE)
    /\ UNCHANGED <<now, ticks, client_id, state, requests, timerAt, ivars, pvars>>


\* time passes
Tick(d) ==
    /\ ticks < MaxTicks
    /\ now' = now + d
    /\ ticks' = ticks + 1
    /\ UNCHANGED <<tokenStore, avars, ivars, pvars>>

----------------------------------------------------------------------------
\* ---- Tool Invoker ----

Unset == [kind |-> "unset"]         \* the variable is not in the environment
EmptyEnv == [kind |-> "empty"]      \* CIRRA_OAUTH_CACHE=
GarbageEnv == [kind |-> "garbage"]  \* a value JSON.parse rejects
NullEnv == [kind |-> "null"]        \* the JSON text null
EnvOf(rec) == [kind |-> "json", rec |-> rec]

NoTokens == [kind |-> "null"]
NoResponse == [kind |-> "none"]
NoResult == [kind |-> "none"]

\* ToBoolean(process.env.CIRRA_OAUTH_CACHE)
EnvSet(e) == e.kind \notin {"unset", "empty"}

\* loadTokens(): the parsed record, or NoTokens for null
loadTokensFileFirst(e, file) ==
    IF file.kind = "json" THEN file.rec
    ELSE IF EnvSet(e) /\ e.kind = "json" THEN e.rec
    ELSE NoTokens

loadTokens(e, file) ==
    IF EnvSet(e) /\ e.kind # "garbage"
    THEN (IF e.kind = "json" THEN e.rec ELSE NoTokens)
    ELSE IF file.kind = "json" THEN file.rec
    ELSE NoTokens

\* a record of the token store or of the environment blob
Credential(at, rt, exp) ==
    [server |-> "cirra", url |-> "https://mcp.cirra.ai", client_id |-> "abc",
     access_token |-> at, refresh_token |-> rt, token_type |-> "Bearer",
     expires_at |-> exp, scope |-> "mcp"]

ExpiresAtChoices == {NoNumber, 0, T0 - 1, T0 + SKEW - 1, T0 + SKEW, T0 + SKEW + 1}
FileRecords == {Credential("ATfile", "RTfile", exp) : exp \in ExpiresAtChoices}
               \cup {Credential("ATfile", Undefined, T0 + SKEW - 1)}
EnvRecords == {Credential("ATenv", "RTenv", exp) : exp \in {NoNumber, T0 + SKEW - 1}}

\* what the process may find in its environment and on disk
Stores == {NoFile, GarbageFile} \cup {FileOf(r) : r \in FileRecords}
SomeStores == {NoFile, FileOf(Credential("ATfile", "RTfile", T0 + SKEW - 1))}
Sources == ({Unset} \X Stores)
           \cup ({EmptyEnv, GarbageEnv, NullEnv} \X SomeStores)
           \cup ({EnvOf(r) : r \in EnvRecords} \X SomeStores)

RefreshResponses == [access_token : {"AT1"}, refresh_token : {"RT1"},
                     expires_in : ExpiresIn]
                    \cup [access_token : {"AT1"}, refresh_token : {Undefined},
                          expires_in : {3600}]

\* the guard of mcpCall: the token is expired or about to be
NeedsRefreshInclusive(tok, t) ==
    TruthyNum(tok.expires_at) /\ t >= tok.expires_at - SKEW
NeedsRefresh(tok, t) ==
    TruthyNum(tok.expires_at) /\ t > tok.expires_at - SKEW

\* the updates refreshTokens makes to the record
RefreshedKeepExpiry(tok, nt, t) ==
    [tok EXCEPT !.access_token = nt.access_token,
                !.refresh_token = IF TruthyStr(nt.refresh_token)
                                  THEN nt.refresh_token ELSE @]
Refreshed(tok, nt, t) ==
    [tok EXCEPT !.access_token = nt.access_token,
                !.refresh_token = IF TruthyStr(nt.refresh_token)
                                  THEN nt.refresh_token ELSE @,
                !.expires_at = ExpiresAt(nt.expires_in, t)]

\* the write-back of refreshTokens
SavedAlways(e, file, tok) == WriteStore(tok)
Saved(e, file, tok) == IF ~EnvSet(e) THEN WriteStore(tok) ELSE file

\* entries of the trace
RefreshReq(tok) ==
    [ev |-> "refresh", method |-> "token", id |-> 0, sid |-> Undefined,
     auth |-> tok.refresh_token, err |-> FALSE]
McpReq(m, id, sid, tok) ==
    [ev |-> "mcp", method |-> m, id |-> id, sid |-> sid,
     auth |-> tok.access_token, err |-> FALSE]
Returned(m, msg) ==
    [ev |-> "return", method |-> m, id |-> 0, sid |-> Undefined,
     auth |-> Undefined, err |-> msg.payload = "error"]
Threw(m) ==
    [ev |-> "throw", method |-> m, id |-> 0, sid |-> Undefined,
     auth |-> Undefined, err |-> TRUE]

\* JSON-RPC messages a body can carry; id = NoNumber stands for no id
Msg(ver, id, payload) == [jsonrpc |-> ver, id |-> id, payload |-> payload]
Responses == {Msg("2.0", 1, "ok"), Msg("2.0", 1, "error")}
Messages == Responses \cup {Msg("2.0", NoNumber, "ok"), Msg("1.0", 1, "ok")}

\* lines of an event-stream body: data says the line starts with "data: ",
\* text is what follows ("blank", "text" that is no JSON, or "json")
Line(data, text, msg) == [data |-> data, text |-> text, msg |-> msg]
Lines == {Line(FALSE, "text", Msg("2.0", 1, "ok")),
          Line(TRUE, "blank", Msg("2.0", 1, "ok")),
          Line(TRUE, "text", Msg("2.0", 1, "ok"))}
         \cup {Line(TRUE, "json", m) : m \in Messages}

\* the lines the streams of the Tool Invoker's runs are made of
StreamLines == {Line(TRUE, "text", Msg("2.0", 1, "ok"))}
               \cup {Line(TRUE, "json", m) : m \in Responses}

SeqsUpTo(S, n) == UNION {[1..k -> S] : k \in 0..n}

\* parseSSEResponse(text): null is NoResult
RECURSIVE parseSSEFromBreak(_, _, _)
parseSSEFromBreak(lines, i, res) ==
    IF i > Len(lines) THEN res
    ELSE LET l == lines[i] IN
         IF l.data /\ l.text = "json" /\ l.msg.jsonrpc = "2.0" /\ l.msg.id /= NoNumber
         THEN l.msg
         ELSE parseSSEFromBreak(lines, i + 1, res)
RECURSIVE parseSSEFromAnyId(_, _, _)
parseSSEFromAnyId(lines, i, res) ==
    IF i > Len(lines) THEN res
    ELSE LET l == lines[i] IN
         IF l.data /\ l.text = "json" /\ l.msg.jsonrpc = "2.0"
         THEN parseSSEFromAnyId(lines, i + 1, l.msg)
         ELSE parseSSEFromAnyId(lines, i + 1, res)
RECURSIVE parseSSEFrom(_, _, _)
parseSSEFrom(lines, i, res) ==
    IF i > Len(lines) THEN res
    ELSE LET l == lines[i] IN
         IF l.data /\ l.text = "json" /\ l.msg.jsonrpc = "2.0" /\ l.msg.id /= NoNumber
         THEN parseSSEFrom(lines, i + 1, l.msg)
         ELSE parseSSEFrom(lines, i + 1, res)

parseSSEResponse(lines) == parseSSEFrom(lines, 1, NoResult)

\* outcomes of decoding an event-stream body in mcpCall
NoMsg == Msg("none", NoNumber, "none")
NotParsed == [outcome |-> "none", msg |-> NoMsg]
StreamReturned(msg) == [outcome |-> "return", msg |-> msg]
StreamThrew == [outcome |-> "throw", msg |-> NoMsg]

\* responses of POST /mcp
JsonBodies == {[ctype |-> "json", valid |-> FALSE, msg |-> Msg("2.0", 1, "ok"), lines |-> <<>>]}
              \cup {[ctype |-> "json", valid |-> TRUE, msg |-> m, lines |-> <<>>] : m \in Responses}
SseBodies == {[ctype |-> "sse", valid |-> TRUE, msg |-> Msg("2.0", 1, "ok"), lines |-> ls] :
                  ls \in SeqsUpTo(StreamLines, MaxFrames)}
SessionIds == {Undefined, "sA", "sB"}
McpResponses == {[ok |-> ok, sid |-> sid, body |-> b] :
                     ok \in BOOLEAN, sid \in SessionIds, b \in JsonBodies \cup SseBodies}

\* what mcpCall makes of a response: the message it returns, NoResult if it throws
DecodeIgnoringStatus(resp) ==
    IF resp.body.ctype = "sse" THEN parseSSEResponse(resp.body.lines)
    ELSE IF resp.body.valid THEN resp.body.msg
    ELSE NoResult
Decode(resp) ==
    IF ~resp.ok THEN NoResult
    ELSE IF resp.body.ctype = "sse" THEN parseSSEResponse(resp.body.lines)
    ELSE IF resp.body.valid THEN resp.body.msg
    ELSE NoResult


\* mcpCall stores the mcp-session-id header of a response
CaptureFirstOnly(sid, header) ==
    IF TruthyStr(header) /\ ~TruthyStr(sid) THEN header ELSE sid
Capture(sid, header) == IF TruthyStr(header) THEN header ELSE sid

\* the Mcp-Session-Id header of a request (Undefined: no header)
SessionHeader(m, sid) ==
    IF m /= "initialize" /\ TruthyStr(sid) THEN sid ELSE Undefined

\* mcpCall builds the request for method m and sends it with the record tok
SendSameId(m, tok, sid, tr) ==
    /\ messageId' = IF messageId = 0 THEN 1 ELSE messageId
    /\ trace' = Append(tr, McpReq(m, messageId', SessionHeader(m, sid), tok))
    /\ ipc' = "fetch"
Send(m, tok, sid, tr) ==
    /\ messageId' = messageId + 1
    /\ trace' = Append(tr, McpReq(m, messageId + 1, SessionHeader(m, sid), tok))
    /\ ipc' = "fetch"

\* an error thrown inside mcpCall reaches a catch of main(): process.exit(1)
Fail(m, tr) ==
    /\ trace' = Append(tr, Threw(m))
    /\ ipc' = "exited"
    /\ iexit' = 1

\* mcpCall(tokens, m, ...) up to its first await: the expiry check, then
\* either the refresh request or the MCP request
Call(m, tok, sid, tr) ==
    /\ method' = m
    /\ IF NeedsRefresh(tok, now)
       THEN IF ~TruthyStr(tok.refresh_token)
            THEN Fail(m, tr) /\ UNCHANGED messageId
            ELSE /\ trace' = Append(tr, RefreshReq(tok))
                 /\ ipc' = "refresh"
                 /\ UNCHANGED <<messageId, iexit>>
       ELSE Send(m, tok, sid, tr) /\ UNCHANGED iexit

\* main() up to the first await: usage check, loadTokens(), and the start of
\* the initialize call of initializeSession
Start ==
    /\ ipc = "start"
    /\ IF args = "none" \/ loadTokens(env, tokenStore) = NoTokens
       THEN /\ ipc' = "exited"
            /\ iexit' = 1
            /\ UNCHANGED <<tokens, method, trace, messageId>>
       ELSE /\ tokens' = loadTokens(env, tokenStore)
            /\ Call("initialize", tokens', sessionId, trace)
    /\ UNCHANGED <<now, ticks, tokenStore, avars, pvars, args, env, newTokens,
                   refreshedAt, sessionId, result, stdout, received>>

\* the token endpoint answered the refresh with 2xx and body nt:
\* the rest of refreshTokens, then mcpCall sends its request
RefreshOkOnCopy(nt) ==
    /\ ipc = "refresh"
    /\ tokens' = tokens
    /\ newTokens' = nt
    /\ refreshedAt' = now
    /\ tokenStore' = Saved(env, tokenStore, Refreshed(tokens, nt, now))
    /\ Send(method, Refreshed(tokens, nt, now), sessionId, trace)
    /\ UNCHANGED <<now, ticks, avars, pvars, args, env, method, sessionId,
                   result, stdout, iexit, received>>
RefreshOk(nt) ==
    /\ ipc = "refresh"
    /\ tokens' = Refreshed(tokens, nt, now)
    /\ newTokens' = nt
    /\ refreshedAt' = now
    /\ tokenStore' = Saved(env, tokenStore, tokens')
    /\ Send(method, tokens', sessionId, trace)
    /\ UNCHANGED <<now, ticks, avars, pvars, args, env, method, sessionId,
                   result, stdout, iexit, received>>

\* the token endpoint answered the refresh with a non-2xx status
RefreshFailFallsThrough ==
    /\ ipc = "refresh"
    /\ Send(method, tokens, sessionId, trace)
    /\ UNCHANGED <<now, ticks, tokenStore, avars, pvars, args, env, method,
                   tokens, newTokens, refreshedAt, sessionId, result, stdout,
                   iexit, received>>
RefreshFail ==
    /\ ipc = "refresh"
    /\ Fail(method, trace)
    /\ UNCHANGED <<now, ticks, tokenStore, avars, pvars, args, env, method,
                   tokens, newTokens, refreshedAt, sessionId, messageId, result,
                   stdout, received>>

\* `if (result.error)` of initializeSession
InitializeErrorIgnored(msg) == FALSE
InitializeFailed(msg) == msg.payload = "error"

\* initializeSession awaits the notification's call and drops what it returns
NotificationErrorChecked(msg) == msg.payload = "error"
NotificationFailed(msg) == FALSE

\* `if (result.error)` of main(), for tools/list and for tools/call
OperationErrorIgnored(msg) == FALSE
OperationFailed(msg) == msg.payload = "error"

\* the method main() calls after the session is initialized
Operation(a) == IF a = "list" THEN "tools/list" ELSE "tools/call"

\* the response of POST /mcp arrived: the rest of mcpCall and of its caller
\* (initializeSession or main), which goes on to the next mcpCall or exits
McpResponse(resp) ==
    /\ ipc = "fetch"
    /\ sessionId' = Capture(sessionId, resp.sid)
    /\ received' = Append(received, [ok |-> resp.ok, sid |-> resp.sid])
    /\ LET msg == Decode(resp)
           ret == Append(trace, Returned(method, msg))
       IN
       IF msg = NoResult
       THEN Fail(method, trace) /\ UNCHANGED <<method, messageId, result, stdout>>
       ELSE /\ result' = msg
            /\ IF method = "initialize"
               THEN IF InitializeFailed(msg)
                    THEN /\ trace' = ret
                         /\ ipc' = "exited" /\ iexit' = 1
                         /\ UNCHANGED <<method, messageId, stdout>>
                    ELSE /\ Call("notifications/initialized", tokens, sessionId', ret)
                         /\ UNCHANGED stdout
               ELSE IF method = "notifications/initialized"
               THEN IF NotificationFailed(msg)
                    THEN /\ trace' = ret
                         /\ ipc' = "exited" /\ iexit' = 1
                         /\ UNCHANGED <<method, messageId, stdout>>
                    ELSE /\ Call(Operation(args), tokens, sessionId', ret)
                         /\ UNCHANGED stdout
               ELSE /\ trace' = ret
                    /\ ipc' = "exited"
                    /\ UNCHANGED <<method, messageId>>
                    /\ IF OperationFailed(msg)
                       THEN iexit' = 1 /\ UNCHANGED stdout
                       ELSE iexit' = 0 /\ stdout' = msg.payload
    /\ UNCHANGED <<now, ticks, tokenStore, avars, pvars, args, env, tokens,
                   newTokens, refreshedAt>>

\* time passes while the process waits for a response
Wait ==
    /\ ipc \in {"refresh", "fetch"}
    /\ Tick(1)

----------------------------------------------------------------------------
\* ---- Specifications ----

AuthorizerOff ==
    /\ apc = "off" /\ client_id = Undefined /\ state = Undefined
    /\ listening = FALSE /\ serverPromise = NoPromise /\ requests = <<>>
    /\ timerAt = NoNumber /\ timerFired = FALSE /\ aexit = NotExited

InvokerOff ==
    /\ args = "none" /\ env = Unset /\ ipc = "off" /\ method = Undefined
    /\ tokens = NoTokens /\ newTokens = NoResponse /\ refreshedAt = NoNumber
    /\ sessionId = Undefined /\ messageId = 0 /\ trace = <<>>
    /\ result = NoResult /\ stdout = Undefined /\ iexit = NotExited
    /\ received = <<>>

DecoderOff == stream = <<>> /\ parsed = NotParsed

\* the Authorizer starts; the token store may hold the record of an earlier run
InitAuth ==
    /\ now = T0 /\ ticks = 0
    /\ tokenStore \in SomeStores
    /\ apc = "register" /\ client_id = Undefined /\ state = Undefined
    /\ listening = FALSE /\ serverPromise = NoPromise /\ requests = <<>>
    /\ timerAt = NoNumber /\ timerFired = FALSE /\ aexit = NotExited
    /\ InvokerOff
    /\ DecoderOff

NextAuth ==
    \/ \E st \in States : RegisterOk("abc", st)
    \/ RegisterFail
    \/ \E req \in Inbound : Handler(req)
    \/ \E i \in 1..MaxCallbacks, tok \in ExchangeResponses : ExchangeOk(i, tok)
    \/ \E i \in 1..MaxCallbacks : ExchangeFail(i)
    \/ Timeout
    \/ Tick(TIMEOUT)

SpecAuth == InitAuth /\ [][NextAuth]_vars

\* the Tool Invoker starts
Init ==
    /\ now = T0 /\ ticks = 0
    /\ \E src \in Sources : env = src[1] /\ tokenStore = src[2]
    /\ args \in {"none", "list", "call"}
    /\ ipc = "start" /\ method = Undefined
    /\ tokens = NoTokens /\ newTokens = NoResponse /\ refreshedAt = NoNumber
    /\ sessionId = Undefined /\ messageId = 0 /\ trace = <<>>
    /\ result = NoResult /\ stdout = Undefined /\ iexit = NotExited
    /\ received = <<>>
    /\ AuthorizerOff
    /\ DecoderOff

Next ==
    \/ Start
    \/ \E nt \in RefreshResponses : RefreshOk(nt)
    \/ RefreshFail
    \/ \E resp \in McpResponses : McpResponse(resp)
    \/ Wait

Spec == Init /\ [][Next]_vars

\* mcpCall received a 2xx event-stream response
InitSSE ==
    /\ now = T0 /\ ticks = 0 /\ tokenStore = NoFile
    /\ stream \in SeqsUpTo(Lines, MaxFrames)
    /\ parsed = NotParsed
    /\ AuthorizerOff
    /\ InvokerOff

\* `if (result) return result`
StreamReturn ==
    /\ parsed = NotParsed
    /\ parseSSEResponse(stream) /= NoResult
    /\ parsed' = StreamReturned(parseSSEResponse(stream))
    /\ UNCHANGED <<now, ticks, tokenStore, avars, ivars, stream>>

\* `throw new Error('No response received from SSE stream')`
StreamThrow ==
    /\ parsed = NotParsed
    /\ parseSSEResponse(stream) = NoResult
    /\ parsed' = StreamThrew
    /\ UNCHANGED <<now, ticks, tokenStore, avars, ivars, stream>>

NextSSE == StreamReturn \/ StreamThrow

SpecSSE == InitSSE /\ [][NextSSE]_vars


----------------------------------------------------------------------------
\* ---- Properties of the Authorizer (SpecAuth) ----

IsCallback(r) == r.path = "/callback"
Rejected(reason) == serverPromise = [status |-> "rejected", reason |-> reason]

\* C1: a /callback request without an error parameter whose state differs
\* from the state of this run never issues a token exchange, closes the
\* listener and fails the flow with the state-mismatch error.
C1_StateMismatchNeverExchanges ==
    \A i \in 1..Len(requests) :
        (/\ IsCallback(requests[i])
         /\ requests[i].error = Undefined
         /\ requests[i].returnedState /= state)
        => /\ ~requests[i].exchanged
           /\ requests[i].status = 400
           /\ ~listening
           /\ Rejected("State mismatch")
           /\ aexit = 1

\* a mismatching callback arrived while a matching one awaited its exchange
C1_Witness ==
    /\ Len(requests) = 2
    /\ requests[1].exchanged /\ requests[1].status = 0
    /\ IsCallback(requests[2]) /\ requests[2].error = Undefined
    /\ requests[2].code = "c1" /\ requests[2].returnedState \in States \ {state}

\* C2 as stated: a /callback request that carries an error parameter, whatever
\* its code and state, never issues a token exchange and fails the flow with
\* that error.
C2_ErrorParameterNeverExchanges ==
    \A i \in 1..Len(requests) :
        (IsCallback(requests[i]) /\ requests[i].error /= Undefined)
        => /\ ~requests[i].exchanged
           /\ Rejected(requests[i].error)
           /\ aexit = 1

\* C2 amended: a /callback request that carries a non-empty error parameter,
\* whatever its code and state, never issues a token exchange, closes the
\* listener and fails the flow with that error.
C2_NonEmptyErrorNeverExchanges ==
    \A i \in 1..Len(requests) :
        (IsCallback(requests[i]) /\ requests[i].error \notin {Undefined, ""})
        => /\ ~requests[i].exchanged
           /\ requests[i].status = 400
           /\ ~listening
           /\ Rejected(requests[i].error)
           /\ aexit = 1

\* an error callback that also carries a code and the state of this run
C2_Witness ==
    \E i \in 1..Len(requests) :
        /\ IsCallback(requests[i]) /\ requests[i].error = "access_denied"
        /\ requests[i].code = "c1" /\ requests[i].returnedState = state

\* C9: the token store is written only by the step in which the exchange of
\* a callback with the state of this run and no error succeeds, after the
\* registration; a run that fails (registration, error callback, state
\* mismatch, exchange failure, timeout) exits with status 1 and writes
\* nothing, and status 0 is reached only after the store was written.
C9_StoreWrittenOnlyOnFullSuccess ==
    [][/\ (tokenStore' /= tokenStore =>
              /\ client_id /= Undefined
              /\ serverPromise.status = "pending"
              /\ serverPromise'.status = "resolved"
              /\ aexit' /= 1
              /\ \E i \in InFlight(requests) :
                    /\ requests'[i].status = 200
                    /\ requests[i].returnedState = state
                    /\ ~TruthyStr(requests[i].error))
       /\ (serverPromise'.status = "rejected" => aexit' = 1)
       /\ (apc' = "exited" /\ serverPromise'.status = "none" => aexit' = 1)
       /\ (aexit' = 1 => tokenStore' = tokenStore /\ serverPromise'.status /= "resolved")
       /\ (aexit = 1 => aexit' = 1)
       /\ (aexit' = 0 => serverPromise'.status = "resolved")
      ]_vars

\* the store of an earlier run was replaced after a successful exchange
C9_Witness ==
    /\ serverPromise.status = "resolved"
    /\ tokenStore.kind = "json" /\ tokenStore.rec.access_token = "AT1"
    /\ aexit = 0

\* C10 as stated: the flow fails with the timeout error only if no callback
\* request arrived before the timeout fired; a callback with the state of
\* this run and no error that arrived first is not failed by the timeout.
C10_TimeoutOnlyWithoutCallback ==
    Rejected("OAuth flow timed out")
        => \A i \in 1..Len(requests) : ~IsCallback(requests[i])


----------------------------------------------------------------------------
\* ---- Properties of the Tool Invoker (Spec) ----

\* this step starts an mcpCall: main() starts the initialize call, or the
\* caller of a call that returned goes on to the next one
StartsCall ==
    \/ ipc = "start" /\ tokens' /= NoTokens
    \/ ipc = "fetch" /\ method' /= method

Last(seq) == seq[Len(seq)]
SentDirectly ==
    /\ ipc' = "fetch" /\ Len(trace') > 0 /\ Last(trace').ev = "mcp"
    /\ \A i \in 1..Len(trace') : i > Len(trace) => trace'[i].ev /= "refresh"
RefreshSent ==
    /\ ipc' = "refresh" /\ Len(trace') > 0 /\ Last(trace').ev = "refresh"
    /\ messageId' = messageId
\* out of the refresh the call either sends its MCP request or fails; it
\* never sends a second refresh request
RefreshOnce ==
    ipc = "refresh" /\ trace' /= trace =>
        /\ Len(trace') = Len(trace) + 1
        /\ \/ Last(trace').ev = "mcp" /\ Last(trace').method = method
           \/ Last(trace').ev = "throw" /\ iexit' = 1

\* C3 as stated (for records that hold a refresh_token): a call made with a
\* non-null expires_at sends no refresh request when expires_at is more than
\* 60 seconds away, and exactly one, before its MCP request, when expires_at
\* is 60 seconds away or less, exactly 60 seconds included.
C3_RefreshWithinSixtySeconds ==
    [][/\ (/\ StartsCall
           /\ tokens'.expires_at \notin {NoNumber, 0}
           /\ tokens'.refresh_token /= Undefined =>
              IF tokens'.expires_at > now + SKEW THEN SentDirectly ELSE RefreshSent)
       /\ RefreshOnce
      ]_vars

\* C3 amended: a call made with a non-null, non-zero expires_at sends no
\* refresh request when expires_at is 60 seconds or more away; when it is
\* less than 60 seconds away or elapsed, the call sends exactly one refresh
\* request, before its MCP request, if the record has a refresh_token, and
\* fails without sending any request if it has none.
C3_RefreshLessThanSixtySeconds ==
    [][/\ (StartsCall /\ tokens'.expires_at \notin {NoNumber, 0} =>
              IF tokens'.expires_at >= now + SKEW THEN SentDirectly
              ELSE IF tokens'.refresh_token \notin {Undefined, ""} THEN RefreshSent
              ELSE /\ ipc' = "exited" /\ iexit' = 1
                   /\ messageId' = messageId
                   /\ trace' = Append(IF ipc = "start" THEN trace
                                      ELSE Append(trace, Returned(method, result')),
                                      Threw(method')))
       /\ RefreshOnce
      ]_vars

\* the first call of a process was made exactly 60 seconds before expiry and
\* sent without a refresh, the second one less than 60 seconds before it
C3_Witness ==
    /\ Len(trace) >= 3
    /\ trace[1].ev = "mcp" /\ trace[2].ev = "return" /\ trace[3].ev = "refresh"
    /\ newTokens = NoResponse
    /\ tokens.expires_at = T0 + SKEW
    /\ now = T0 + 1

\* where loadTokens() took the record from
Source(e, file) ==
    IF e.kind \in {"json", "null"} THEN "env"
    ELSE IF file.kind = "json" THEN "file" ELSE "none"

RefreshSucceeds == ipc = "refresh" /\ ipc' = "fetch"

\* C4 as stated: a successful refresh rewrites the token store with the
\* updated record if and only if the record was loaded from the file, and
\* leaves it as it was when the record came from CIRRA_OAUTH_CACHE.
C4_WriteBackIffLoadedFromFile ==
    [][RefreshSucceeds =>
         /\ (Source(env, tokenStore) = "file" <=> tokenStore' = FileOf(tokens'))
         /\ (Source(env, tokenStore) = "env" => tokenStore' = tokenStore)
      ]_vars

\* C4 amended: a successful refresh rewrites the token store with the updated
\* record if and only if CIRRA_OAUTH_CACHE is unset or empty (the record then
\* comes from the file); whenever CIRRA_OAUTH_CACHE is non-empty, which
\* includes every run that uses the environment blob, the store is unchanged.
C4_WriteBackIffEnvEmpty ==
    [][RefreshSucceeds =>
         /\ (~EnvSet(env) <=> tokenStore' = FileOf(tokens'))
         /\ (~EnvSet(env) => Source(env, tokenStore) = "file")
         /\ (EnvSet(env) => tokenStore' = tokenStore)
      ]_vars

\* a refresh succeeded for a record of the environment while a store exists
C4_Witness ==
    /\ newTokens /= NoResponse
    /\ env.kind = "json" /\ tokenStore.kind = "json"
    /\ tokens.access_token = "AT1"

\* C5: a successful refresh sets access_token to the response's, refresh_token
\* to the response's when it has one and leaves it otherwise, replaces
\* expires_at by a value computed from the time of the refresh, and leaves
\* server, url, client_id, token_type and scope as they were.
C5_RefreshUpdatesRecord ==
    [][RefreshSucceeds =>
         /\ tokens'.access_token = newTokens'.access_token
         /\ tokens'.refresh_token =
               IF newTokens'.refresh_token /= Undefined
               THEN newTokens'.refresh_token ELSE tokens.refresh_token
         /\ tokens'.expires_at /= tokens.expires_at
         /\ (newTokens'.expires_in > 0 =>
                tokens'.expires_at = now + newTokens'.expires_in * 1000)
         /\ (newTokens'.expires_in = NoNumber => tokens'.expires_at = NoNumber)
         /\ \A f \in {"server", "url", "client_id", "token_type", "scope"} :
                tokens'[f] = tokens[f]
      ]_vars

\* a second refresh of the process, whose response had no refresh_token
C5_Witness ==
    /\ \E i, j \in 1..Len(trace) : i < j /\ trace[i].ev = "refresh" /\ trace[j].ev = "refresh"
    /\ newTokens /= NoResponse /\ newTokens.refresh_token = Undefined
    /\ tokens.refresh_token = "RT1" /\ refreshedAt = T0 + 1
    /\ tokens.expires_at = refreshedAt + 3600 * 1000

\* C6 as stated: expires_at of the record equals the time the token response
\* was received plus expires_in*1000 whenever the response carries expires_in
\* (any non-negative number), and is null exactly when expires_in is absent.
C6_ExpiresAtFromExpiresIn ==
    newTokens /= NoResponse =>
        tokens.expires_at = IF newTokens.expires_in = NoNumber THEN NoNumber
                            ELSE refreshedAt + newTokens.expires_in * 1000

McpRequests == SelectSeq(trace, LAMBDA e : e.ev = "mcp")
IsOperation(e) == e.ev = "mcp" /\ e.method \in {"tools/list", "tools/call"}

\* C7: a process that sends tools/list or tools/call has sent before it one
\* initialize request, which returned without an error field, and then one
\* notifications/initialized request; it sends at most one tools/list or
\* tools/call, and none when initialize failed.
C7_InitializeThenNotifyThenOperation ==
    /\ (\E i \in 1..Len(trace) : IsOperation(trace[i])) =>
          /\ Len(McpRequests) = 3
          /\ McpRequests[1].method = "initialize"
          /\ McpRequests[2].method = "notifications/initialized"
          /\ McpRequests[3].method = Operation(args)
          /\ \E i, j, k \in 1..Len(trace) :
                /\ i < j /\ j < k
                /\ trace[i] = McpRequests[1]
                /\ trace[j] = Returned("initialize", Msg("2.0", 1, "ok"))
                /\ trace[k] = McpRequests[2]
    /\ (\E i \in 1..Len(trace) :
            /\ trace[i].method = "initialize"
            /\ trace[i].ev \in {"return", "throw"} /\ trace[i].err) =>
          Len(McpRequests) <= 1

\* the process sent its operation after initialize and notify
C7_Witness ==
    /\ Len(McpRequests) = 3
    /\ IsOperation(McpRequests[3])
    /\ iexit = 0

\* the credentials a run used: its first request carries a token of rec
FirstUses(rec) ==
    /\ trace /= <<>>
    /\ trace[1].ev = "mcp" => trace[1].auth = rec.access_token
    /\ trace[1].ev = "refresh" => trace[1].auth = rec.refresh_token
    /\ trace[1].ev = "throw" => tokens = rec
\* no request carries a token of rec
NeverUses(rec) ==
    \A i \in 1..Len(trace) :
        trace[i].ev \in {"mcp", "refresh"} =>
            trace[i].auth \notin {rec.access_token, rec.refresh_token}
UsesEnv ==
    /\ FirstUses(env.rec)
    /\ tokenStore.kind = "json" => NeverUses(tokenStore.rec)
UsesStore ==
    /\ newTokens = NoResponse => FirstUses(tokenStore.rec)
    /\ env.kind = "json" => NeverUses(env.rec)
NoRequest == trace = <<>> /\ messageId = 0
Started == ipc /= "start" /\ args /= "none"

\* C8 as stated: whenever CIRRA_OAUTH_CACHE is present the credentials are
\* those of the environment blob and the store is not used; otherwise the
\* store is used; when neither yields a record the process exits with
\* status 1 without any request.
C8_EnvironmentPresentWins ==
    Started =>
        IF env.kind \notin {"unset", "empty"}
        THEN IF env.kind = "json" THEN UsesEnv ELSE NoRequest /\ iexit = 1
        ELSE IF tokenStore.kind = "json" THEN UsesStore
             ELSE NoRequest /\ iexit = 1

\* C8 amended: whenever CIRRA_OAUTH_CACHE is non-empty and parses as JSON the
\* value parsed from it is used and the store is not (JSON null is no record);
\* when it is unset, empty or not valid JSON the store is used; when the
\* source consulted yields no record the process exits with status 1 without
\* any request.
C8_ParsedEnvironmentWins ==
    Started =>
        IF env.kind \in {"json", "null"}
        THEN IF env.kind = "json" THEN UsesEnv ELSE NoRequest /\ iexit = 1
        ELSE IF tokenStore.kind = "json" THEN UsesStore
             ELSE NoRequest /\ iexit = 1

\* both sources hold a record and the run sent a request
C8_Witness ==
    /\ env.kind = "json" /\ tokenStore.kind = "json"
    /\ trace /= <<>> /\ trace[1].ev = "mcp" /\ trace[1].auth = "ATenv"


----------------------------------------------------------------------------
\* ---- Properties of the event-stream decoder (SpecSSE) ----

\* the `data: ` lines whose payload is JSON with jsonrpc "2.0" and an id
IsResponseFrame(l) ==
    l.data /\ l.text = "json" /\ l.msg.jsonrpc = "2.0" /\ l.msg.id /= NoNumber
ResponseFrames(lines) == {i \in 1..Len(lines) : IsResponseFrame(lines[i])}
First(S) == CHOOSE i \in S : \A j \in S : i <= j
Latest(S) == CHOOSE i \in S : \A j \in S : j <= i

\* C11 as stated: for a stream with one or more such frames the decoder
\* returns the first of them in stream order.
C11_FirstResponseFrameReturned ==
    parsed /= NotParsed /\ ResponseFrames(stream) /= {} =>
        parsed = StreamReturned(stream[First(ResponseFrames(stream))].msg)

\* C11 amended: for a stream with one or more such frames the decoder
\* returns the last of them in stream order.
C11_LastResponseFrameReturned ==
    parsed /= NotParsed /\ ResponseFrames(stream) /= {} =>
        parsed = StreamReturned(stream[Latest(ResponseFrames(stream))].msg)

\* a stream of two such frames with different payloads was decoded
C11_Witness ==
    /\ parsed.outcome = "return"
    /\ ResponseFrames(stream) = {1, 2}
    /\ stream[1].msg /= stream[2].msg

\* C12: a stream of several data frames of which exactly one has jsonrpc
\* "2.0" and an id decodes to that frame, wherever it stands; a stream with
\* no such frame makes the call throw instead of returning a value.
C12_OnlyResponseFrameOrThrow ==
    parsed /= NotParsed =>
        /\ Cardinality(ResponseFrames(stream)) = 1 =>
              parsed = StreamReturned(stream[First(ResponseFrames(stream))].msg)
        /\ ResponseFrames(stream) = {} => parsed = StreamThrew

\* the only such frame came first and a frame without id followed it
C12_Witness ==
    /\ parsed.outcome = "return"
    /\ Len(stream) = 2
    /\ ResponseFrames(stream) = {1}
    /\ stream[2] = Line(TRUE, "json", Msg("2.0", NoNumber, "ok"))


----------------------------------------------------------------------------
\* ---- Properties of the Tool Invoker's failure paths (Spec) ----

\* the step takes in a response of POST /mcp whose status is not 2xx
NonOkReceived ==
    /\ ipc = "fetch"
    /\ Len(received') = Len(received) + 1
    /\ ~Last(received').ok

\* C13: a response of POST /mcp with a non-2xx status makes the call throw,
\* whatever its content type, body and headers: no result is returned or
\* printed, no further request is sent and the process exits with status 1.
C13_NonOkResponseAlwaysFails ==
    [][NonOkReceived =>
         /\ trace' = Append(trace, Threw(method))
         /\ result' = result /\ stdout' = stdout
         /\ messageId' = messageId
         /\ ipc' = "exited" /\ iexit' = 1
      ]_vars

\* the operation's request was answered with a non-2xx status that carried
\* a session id, after initialize and the notification had succeeded
C13_Witness ==
    /\ Len(received) = 3 /\ ~received[3].ok /\ received[3].sid = "sB"
    /\ received[1].ok /\ received[2].ok
    /\ Last(trace) = Threw(Operation(args))
    /\ stdout = Undefined /\ iexit = 1

\* the token endpoint rejected the refresh: the wait for it ends and no
\* token response was taken in
RefreshRejected ==
    /\ ipc = "refresh" /\ ipc' /= "refresh"
    /\ UNCHANGED <<newTokens, refreshedAt>>
\* a call starts with a record that needs a refresh and has no refresh_token
RefreshImpossible ==
    /\ StartsCall
    /\ NeedsRefresh(tokens', now)
    /\ ~TruthyStr(tokens'.refresh_token)
NothingSent ==
    /\ Len(trace') >= Len(trace)
    /\ \A i \in 1..Len(trace') :
          i > Len(trace) => trace'[i].ev \notin {"mcp", "refresh"}
    /\ messageId' = messageId

\* C14: a failed token refresh (the token endpoint answers non-2xx, or the
\* record has no refresh_token) is not retried; the MCP request of the call
\* is not sent and no request follows it; the record in memory and the
\* token store stay as they were; the process exits with status 1.
C14_FailedRefreshIsFatal ==
    [][/\ RefreshRejected \/ RefreshImpossible =>
             /\ NothingSent
             /\ Last(trace') = Threw(method')
             /\ ipc' = "exited" /\ iexit' = 1
             /\ tokenStore' = tokenStore
             /\ tokens' = IF ipc = "start" THEN loadTokens(env, tokenStore)
                          ELSE tokens
       /\ ipc = "exited" => trace' = trace /\ tokenStore' = tokenStore
      ]_vars

\* the refresh the notification's call had started was rejected: the refresh
\* request is the last request of the run and the store holds what it held
C14_Witness ==
    /\ iexit = 1 /\ method = "notifications/initialized"
    /\ Len(trace) = 4
    /\ trace[3].ev = "refresh" /\ trace[4] = Threw(method)
    /\ Len(McpRequests) = 1 /\ messageId = 1
    /\ newTokens = NoResponse
    /\ tokenStore = FileOf(tokens)


\* outcomes of the calls of a run, read off its trace
ReturnedBy(m, e) == e.ev = "return" /\ e.method = m
ReturnedClean(m) == \E i \in 1..Len(trace) : ReturnedBy(m, trace[i]) /\ ~trace[i].err
ReturnedError(m) == \E i \in 1..Len(trace) : ReturnedBy(m, trace[i]) /\ trace[i].err
ThrewIn(m) == \E i \in 1..Len(trace) : trace[i] = Threw(m)
InitializeSessionFailed ==
    \/ ThrewIn("initialize") \/ ReturnedError("initialize")
    \/ ThrewIn("notifications/initialized")

\* C15: the process exits with status 0 only when credentials were found,
\* initialize returned without an error field and the response to the
\* requested operation carried none; it exits with status 1 when no
\* credentials are found, when initializeSession fails, and when the response
\* to initialize or to the operation carries an error field; with status 1
\* nothing was printed to standard output.
C15_ExitStatus ==
    /\ iexit = 0 =>
          /\ tokens /= NoTokens
          /\ ReturnedClean("initialize")
          /\ ReturnedBy(Operation(args), Last(trace)) /\ ~Last(trace).err
          /\ stdout /= Undefined
    /\ Started /\ tokens = NoTokens => iexit = 1 /\ trace = <<>>
    /\ InitializeSessionFailed => iexit = 1
    /\ ReturnedError(Operation(args)) => iexit = 1
    /\ iexit = 1 => stdout = Undefined

\* tools/call was answered with an error field after a clean initialize
C15_Witness ==
    /\ args = "call" /\ ReturnedClean("initialize")
    /\ Last(trace) = Returned("tools/call", Msg("2.0", 1, "error"))
    /\ iexit = 1 /\ stdout = Undefined


----------------------------------------------------------------------------
\* ---- Properties of the Tool Invoker's requests (Spec) ----

\* the session id of the most recent of the first n responses that carried
\* one, Undefined when none did
LatestSessionId(n) ==
    LET carried == {i \in 1..n : TruthyStr(received[i].sid)} IN
    IF carried = {} THEN Undefined ELSE received[Latest(carried)].sid

\* C16: the initialize request carries no Mcp-Session-Id header; every other
\* request carries the session id of the most recent response before it
\* that had one, and no header when no response before it had one.
C16_SessionIdHeader ==
    \A k \in 1..Len(McpRequests) :
        /\ Len(received) >= k - 1
        /\ McpRequests[k].sid =
              IF McpRequests[k].method = "initialize" THEN Undefined
              ELSE LatestSessionId(k - 1)

\* the responses to initialize and to the notification carried different
\* session ids and the operation's request was sent
C16_Witness ==
    /\ Len(McpRequests) = 3
    /\ received[1].sid = "sA" /\ received[2].sid = "sB"
    /\ McpRequests[1].sid = Undefined
    /\ McpRequests[2].sid = "sA"
    /\ McpRequests[3].sid = "sB"

\* C17: the k-th request of a process carries id k, so the ids start at 1,
\* increase strictly and are never used twice, and the counter is advanced
\* only when a request is sent, whether or not a refresh came before it or
\* failed.
C17_RequestIds ==
    /\ \A k \in 1..Len(McpRequests) : McpRequests[k].id = k
    /\ messageId = Len(McpRequests)
    /\ Len(McpRequests) <= 3

\* three requests were sent, a refresh having come before the second, and
\* the third was answered with a non-2xx status
C17_Witness ==
    /\ Len(McpRequests) = 3 /\ McpRequests[3].id = 3
    /\ Len(trace) >= 3 /\ trace[3].ev = "refresh"
    /\ Last(trace).ev = "throw" /\ iexit = 1


\* the notification's call returned a message with an error field
NotificationErrorReturned ==
    /\ ipc = "fetch" /\ method = "notifications/initialized"
    /\ \E i \in 1..Len(trace') :
          /\ i > Len(trace)
          /\ trace'[i] = Returned(method, Msg("2.0", 1, "error"))
\* the process ends in the call of the requested operation
OperationEnds == method = Operation(args) /\ ipc /= "exited" /\ ipc' = "exited"

\* C18: an error field in the response to notifications/initialized ends
\* nothing and prints nothing: the same step starts the call of the
\* requested operation, which sends its request (after a refresh when the
\* record needs one); and the exit status is 0 when the operation's call
\* returned a message without error field and 1 otherwise, whatever the
\* notification's response was.
C18_NotificationErrorIgnored ==
    [][/\ NotificationErrorReturned =>
             /\ StartsCall /\ method' = Operation(args)
             /\ stdout' = stdout
             /\ \/ SentDirectly /\ Last(trace').method = Operation(args)
                \/ RefreshSent
                \/ RefreshImpossible /\ iexit' = 1
             /\ ~RefreshImpossible => iexit' = NotExited
       /\ OperationEnds =>
             iexit' = IF /\ ReturnedBy(method, Last(trace'))
                         /\ ~Last(trace').err
                      THEN 0 ELSE 1
      ]_vars

\* the notification was answered with an error field and the run succeeded
C18_Witness ==
    /\ ReturnedError("notifications/initialized")
    /\ Len(McpRequests) = 3 /\ McpRequests[3].method = Operation(args)
    /\ iexit = 0 /\ stdout /= Undefined

RefreshCount(tr) == Len(SelectSeq(tr, LAMBDA e : e.ev = "refresh"))

\* C19 as stated: a process sends at most one refresh request, whatever
\* expires_in the token responses carry.
C19_AtMostOneRefresh == RefreshCount(trace) <= 1

\* the refreshed record is expired or about to be at time t
RefreshedNeedsRefresh(t) ==
    /\ TruthyNum(newTokens.expires_in)
    /\ t > refreshedAt + newTokens.expires_in * 1000 - SKEW

\* C19 amended: a call sends at most one refresh request; after a successful
\* refresh the later calls work on the refreshed record, and such a call
\* refreshes again exactly when expires_in of the last token response is
\* neither absent nor 0 and the call starts more than expires_in - 60
\* seconds after that response; otherwise it sends its request with the
\* refreshed access token.
C19_RefreshAgainOnlyWhenDue ==
    [][/\ RefreshOnce
       /\ StartsCall /\ newTokens /= NoResponse =>
             /\ tokens' = tokens
             /\ tokens.access_token = newTokens.access_token
             /\ IF RefreshedNeedsRefresh(now)
                THEN RefreshSent /\ Last(trace').auth = tokens.refresh_token
                ELSE SentDirectly /\ Last(trace').auth = newTokens.access_token
      ]_vars

\* initialize refreshed a record loaded from the store, time passed, and
\* the two later calls sent their requests without another refresh
C19_Witness ==
    /\ trace /= <<>> /\ trace[1].ev = "refresh" /\ RefreshCount(trace) = 1
    /\ newTokens /= NoResponse /\ newTokens.expires_in = 3600
    /\ now > refreshedAt
    /\ Len(McpRequests) = 3 /\ McpRequests[3].auth = "AT1"
    /\ iexit = 0

----------------------------------------------------------------------------
\* ---- Concurrent callbacks of the Authorizer (SpecAuth) ----

\* C20 as stated: a run issues at most one token-exchange request, whatever
\* requests reach the listener, and requests to other paths are answered
\* 404 without an exchange.
C20_AtMostOneExchange ==
    /\ Exchanges(requests) <= 1
    /\ \A i \in 1..Len(requests) :
          ~IsCallback(requests[i]) =>
              requests[i].status = 404 /\ ~requests[i].exchanged

====
